---------------------------- MODULE Spec2Model ----------------------------
(***************************************************************************)
(* Model of the egg tracker: the Telegram handlers of bot.py and the       *)
(* Google Sheets adapter of sheets.py.                                     *)
(*                                                                         *)
(* The EggLog worksheet is a remote table shared by every running bot      *)
(* process; sheets.py holds no lock and no cache, so one action of the     *)
(* model is one round trip to the sheet together with the local code that  *)
(* runs up to the next round trip.  A session is a chat served by one bot   *)
(* process; requests of different sessions may be in flight together and   *)
(* their round trips interleave in any order.                              *)
(*                                                                         *)
(* Cells.  A Date cell is [kind, day]: "iso" is the zero-padded            *)
(* YYYY-MM-DD text of calendar day `day`, "short" is the same day written  *)
(* without zero padding (strptime reads it, strftime never writes it),     *)
(* "blank" is the empty cell and "junk" is text strptime rejects.  A Count *)
(* cell is [kind, v]: "int" a number, "blank" the empty cell, "text" a     *)
(* non-numeric value.                                                      *)
(*                                                                         *)
(* Time.  A datetime is a number of ticks, TicksPerDay to the calendar     *)
(* day; a tick that is a multiple of TicksPerDay is exactly midnight.      *)
(***************************************************************************)
EXTENDS Integers, Sequences, FiniteSets, TLC

\* ------------------------------------------------------------------ bounds
TicksPerDay == 2
DaysBack == 7
MaxRequests == 2
MaxRows == 2

Sessions == {1, 2}
AggSessions == {1}

\* The calendar day on which every behaviour starts.
Day0 == DaysBack

\* ----------------------------------------------------------- cell values
IsoDate(day) == [kind |-> "iso", day |-> day]
ShortDate(day) == [kind |-> "short", day |-> day]
BlankDate == [kind |-> "blank", day |-> 0]
JunkDate == [kind |-> "junk", day |-> 0]

IntCell(v) == [kind |-> "int", v |-> v]
BlankCell == [kind |-> "blank", v |-> 0]
TextCell == [kind |-> "text", v |-> 0]

Row(date, count) == [Date |-> date, Count |-> count]

\* ------------------------------------------------- results of Python calls
Ok(v) == [exc |-> "none", val |-> v]
Raise(e) == [exc |-> e, val |-> 0]

\* ----------------------------------------------------------- conversions
\* datetime.now().strftime("%Y-%m-%d")
strftime(dt) == IsoDate(dt \div TicksPerDay)

\* datetime.strptime(date_str, "%Y-%m-%d"): midnight of the day, or ValueError
strptime(date_str) ==
    IF date_str.kind \in {"iso", "short"}
    THEN Ok(date_str.day * TicksPerDay)
    ELSE Raise("ValueError")

\* timedelta(days=n)
timedelta(n) == n * TicksPerDay

\* int(record.get("Count", 0)) on a value of get_all_records(): a blank cell
\* comes back as '' and a non-numeric one as its text; int() rejects both.
int_of_record(cell) ==
    IF cell.kind = "int" THEN Ok(cell.v) ELSE Raise("ValueError")

\* int(worksheet.cell(row, 2).value or 0): a blank cell reads as 0.
int_of_cell(cell) ==
    IF cell.kind = "int" THEN Ok(cell.v)
    ELSE IF cell.kind = "blank" THEN Ok(0)
    ELSE Raise("ValueError")

\* ------------------------------------------------------------ aggregator
Min(S) == CHOOSE x \in S : \A y \in S : x <= y
Max(S) == CHOOSE x \in S : \A y \in S : x >= y

\* The window test of get_week_total and get_week_breakdown.
week_ago(today) == today - timedelta(6)

in_week(record_date, today) ==
    week_ago(today) <= record_date /\ record_date <= today

\* get_today_total on fetched records: the first row whose Date is today's text.
get_today_total(records, today) ==
    LET hits == {i \in 1..Len(records) : records[i].Date = strftime(today)}
    IN  IF hits = {} THEN Ok(0) ELSE int_of_record(records[Min(hits)].Count)

\* A plausible slip of the loop below: the lower end of the window unchecked.
week_term_no_lower_end(record, today) ==
    IF record.Date.kind = "blank" THEN 0
    ELSE IF strptime(record.Date).exc # "none" THEN 0
    ELSE IF ~(strptime(record.Date).val <= today) THEN 0
    ELSE IF int_of_record(record.Count).exc # "none" THEN 0
    ELSE int_of_record(record.Count).val

\* What one pass of the loop of get_week_total adds to total.
week_term(record, today) ==
    IF record.Date.kind = "blank" THEN 0
    ELSE IF strptime(record.Date).exc # "none" THEN 0
    ELSE IF ~in_week(strptime(record.Date).val, today) THEN 0
    ELSE IF int_of_record(record.Count).exc # "none" THEN 0
    ELSE int_of_record(record.Count).val

RECURSIVE week_sum(_, _, _)
week_sum(records, today, n) ==
    IF n = 0 THEN 0
    ELSE week_sum(records, today, n - 1) + week_term(records[n], today)

get_week_total(records, today) == week_sum(records, today, Len(records))

\* The rows that assign date_counts[date_str] in get_week_breakdown.
counted(records, today) ==
    {i \in 1..Len(records) :
        /\ records[i].Date.kind # "blank"
        /\ strptime(records[i].Date).exc = "none"
        /\ in_week(strptime(records[i].Date).val, today)
        /\ int_of_record(records[i].Count).exc = "none"}

\* date_counts.get(date_str, 0): the last assignment to the key wins.
date_counts_get(records, today, date_str) ==
    LET hits == {i \in counted(records, today) : records[i].Date = date_str}
    IN  IF hits = {} THEN 0 ELSE records[Max(hits)].Count.v

\* get_week_breakdown: entry i+1 is day today-i; the label stands for the
\* "%a %m/%d" text of that day.
get_week_breakdown(records, today) ==
    [k \in 1..7 |->
        LET date == today - timedelta(k - 1)
        IN  [label |-> date \div TicksPerDay,
             count |-> date_counts_get(records, today, strftime(date))]]

RECURSIVE SumCounts(_, _)
SumCounts(breakdown, n) ==
    IF n = 0 THEN 0 ELSE SumCounts(breakdown, n - 1) + breakdown[n].count

\* ------------------------------------------------------------- user text
DigitSeq == <<"0", "1", "2", "3", "4", "5", "6", "7", "8", "9">>
IsDigit(c) == \E i \in 1..10 : DigitSeq[i] = c
DigitVal(c) == (CHOOSE i \in 1..10 : DigitSeq[i] = c) - 1

\* update.message.text.strip()
RECURSIVE lstrip(_)
lstrip(text) ==
    IF text # <<>> /\ Head(text) = " " THEN lstrip(Tail(text)) ELSE text

RECURSIVE rstrip(_)
rstrip(text) ==
    IF text # <<>> /\ text[Len(text)] = " "
    THEN rstrip(SubSeq(text, 1, Len(text) - 1))
    ELSE text

strip(text) == rstrip(lstrip(text))

RECURSIVE digits_value(_, _)
digits_value(ds, n) ==
    IF n = 0 THEN 0 ELSE 10 * digits_value(ds, n - 1) + DigitVal(ds[n])

\* int(text): an optional sign and one or more decimal digits, else ValueError
int_of_text(text) ==
    LET signed == text # <<>> /\ Head(text) \in {"-", "+"}
        ds == IF signed THEN Tail(text) ELSE text
    IN  IF ds = <<>> \/ \E i \in 1..Len(ds) : ~IsDigit(ds[i])
        THEN Raise("ValueError")
        ELSE IF signed /\ Head(text) = "-"
             THEN Ok(0 - digits_value(ds, Len(ds)))
             ELSE Ok(digits_value(ds, Len(ds)))

\* The messages a chat session may send.
Texts ==
    { <<"a">>, <<"-", "1">>, <<" ", "0">>, <<"1", "0", "0">>, <<"1", "0", "1">> }

\* ---------------------------------------------------------------- replies
NoBreakdown == <<>>
Reply(type, count, today, week, breakdown) ==
    [type |-> type, count |-> count, today |-> today, week |-> week,
     breakdown |-> breakdown]

NoReply == Reply("none", 0, 0, 0, NoBreakdown)
WelcomeReply == Reply("welcome", 0, 0, 0, NoBreakdown)
PositiveReply == Reply("positive", 0, 0, 0, NoBreakdown)
TooManyReply == Reply("too_many", 0, 0, 0, NoBreakdown)
HintReply == Reply("hint", 0, 0, 0, NoBreakdown)
AddApology == Reply("add_apology", 0, 0, 0, NoBreakdown)
StatsApology == Reply("stats_apology", 0, 0, 0, NoBreakdown)
AddedReply(count, today_total, week_total) ==
    Reply("added", count, today_total, week_total, NoBreakdown)
StatsReply(today_total, week_total, breakdown) ==
    Reply("stats", 0, today_total, week_total, breakdown)

\* ------------------------------------------------------------------ state
VARIABLES
    rows,      \* the data rows of the EggLog worksheet, below the header
    now,       \* the wall clock, in ticks
    env,       \* which of the two environment variables are set
    pc,        \* each session's position in its handler
    req,       \* each session's local variables
    reply,     \* the reply each session's last request sent
    logged,    \* whether that request called logger.error
    hist,      \* history of each session's request, read by the properties only
    nreq       \* requests received so far

vars == <<rows, now, env, pc, req, reply, logged, hist, nreq>>

NoReq ==
    [kind |-> "none", text |-> <<>>, count |-> 0, today |-> 0, today_row |-> 0,
     current_count |-> 0, new_count |-> 0, today_total |-> 0, week_total |-> 0]

\* rows0/now0: the sheet and the clock when the request arrived; alone: no
\* other session has written since; wrote: this request has written;
\* snaps: the records of each fetch of a stats request, in order.
NoHist == [rows0 |-> <<>>, now0 |-> 0, alone |-> TRUE, wrote |-> FALSE, snaps |-> <<>>]

\* ----------------------------------------------------------- the adapter
\* get_client: the credentials variable must be set.
get_client ==
    IF ~env.creds THEN Raise("ValueError") ELSE Ok(0)

\* get_worksheet: get_client, the sheet id, then the calls that open the
\* spreadsheet and its worksheet; net is whether those round trips succeed.
get_worksheet(net) ==
    IF get_client.exc # "none" THEN get_client
    ELSE IF ~env.sheet_id THEN Raise("ValueError")
    ELSE IF ~net THEN Raise("Exception")
    ELSE Ok(0)

\* The loop of add_eggs that finds today's row: i + 2 for the first record
\* whose Date is today's text, None (0) when there is none.
find_today_row(records, today) ==
    LET hits == {i \in 1..Len(records) : records[i].Date = strftime(today)}
    IN  IF hits = {} THEN 0 ELSE (Min(hits) - 1) + 2

\* The record index (from 1) of sheet row today_row.
record_of_row(today_row) == today_row - 1

\* Plausible slips of the line below: the count overwrites, or is taken off.
new_count_overwrite(current_count, count) == count
new_count_subtract(current_count, count) == current_count - count

\* new_count = current_count + count
new_count_of(current_count, count) == current_count + count

\* worksheet.update_cell(today_row, 2, new_count)
update_cell(sheet, today_row, value) ==
    [sheet EXCEPT ![record_of_row(today_row)].Count = IntCell(value)]

\* worksheet.append_row([today, count])
append_row(sheet, today, count) ==
    Append(sheet, Row(strftime(today), IntCell(count)))

\* ------------------------------------------------------- handler plumbing
\* The handler returns: its reply is sent and, on the error path, logged.
Finish(s, rep, log) ==
    /\ pc' = [pc EXCEPT ![s] = "done"]
    /\ reply' = [reply EXCEPT ![s] = rep]
    /\ logged' = [logged EXCEPT ![s] = log]

\* The except clauses of handle_number: ValueError first, then Exception.
handle_number_except(s, exc) ==
    IF exc = "ValueError"
    THEN Finish(s, HintReply, FALSE)
    ELSE Finish(s, AddApology, TRUE)

\* The except clause of stats.
stats_except(s) == Finish(s, StatsApology, TRUE)

\* A new update is dispatched to a session whose handler is not running.
Arrive(s, kind, text, count) ==
    /\ pc[s] \in {"idle", "done"}
    /\ nreq < MaxRequests
    /\ nreq' = nreq + 1
    /\ req' = [req EXCEPT ![s] = [NoReq EXCEPT !.kind = kind, !.text = text,
                                                !.count = count]]
    /\ hist' = [hist EXCEPT ![s] = [NoHist EXCEPT !.rows0 = rows, !.now0 = now]]

Step(s, next) ==
    /\ pc' = [pc EXCEPT ![s] = next]
    /\ UNCHANGED <<reply, logged>>

Fetched(s, records) ==
    hist' = [hist EXCEPT ![s].snaps = Append(@, records)]

Wrote(s) ==
    hist' = [t \in Sessions |->
                IF t = s THEN [hist[t] EXCEPT !.wrote = TRUE]
                ELSE [hist[t] EXCEPT !.alone = FALSE]]

\* A plausible slip of the upper range check: the cap off by one.
is_too_many_off_by_one(count) == count > 101

\* The range checks of handle_number.
is_negative(count) == count < 0
is_too_many(count) == count > 100

\* -------------------------------------------------------------- handlers
\* start: the welcome text, no store access.
start(s) ==
    /\ Arrive(s, "start", <<>>, 0)
    /\ Finish(s, WelcomeReply, FALSE)
    /\ UNCHANGED <<rows, now, env>>

\* handle_number up to the call of add_eggs: strip, int, the two range checks.
handle_number(s, text) ==
    LET count == int_of_text(strip(text))
    IN  /\ Arrive(s, "number", text, IF count.exc = "none" THEN count.val ELSE 0)
        /\ IF count.exc # "none" THEN handle_number_except(s, count.exc)
           ELSE IF is_negative(count.val) THEN Finish(s, PositiveReply, FALSE)
           ELSE IF is_too_many(count.val) THEN Finish(s, TooManyReply, FALSE)
           ELSE Step(s, "add_fetch")
        /\ UNCHANGED <<rows, now, env>>

\* add_eggs: get_worksheet, today, get_all_records, the search for today's row.
add_eggs_fetch(s, net) ==
    /\ pc[s] = "add_fetch"
    /\ IF get_worksheet(net).exc # "none"
       THEN /\ handle_number_except(s, get_worksheet(net).exc)
            /\ UNCHANGED req
       ELSE /\ req' = [req EXCEPT ![s].today = now,
                                  ![s].today_row = find_today_row(rows, now)]
            /\ Step(s, IF find_today_row(rows, now) # 0 THEN "add_cell" ELSE "add_append")
    /\ UNCHANGED <<rows, now, env, hist, nreq>>

\* add_eggs: current_count = int(worksheet.cell(today_row, 2).value or 0)
add_eggs_cell(s, net) ==
    LET current_count == int_of_cell(rows[record_of_row(req[s].today_row)].Count)
    IN  /\ pc[s] = "add_cell"
        /\ IF ~net THEN handle_number_except(s, "Exception") /\ UNCHANGED req
           ELSE IF current_count.exc # "none"
           THEN handle_number_except(s, current_count.exc) /\ UNCHANGED req
           ELSE /\ req' = [req EXCEPT ![s].current_count = current_count.val,
                                      ![s].new_count =
                                new_count_of(current_count.val, req[s].count)]
                /\ Step(s, "add_update")
        /\ UNCHANGED <<rows, now, env, hist, nreq>>

\* add_eggs: worksheet.update_cell(today_row, 2, new_count)
add_eggs_update(s, net) ==
    /\ pc[s] = "add_update"
    /\ IF ~net
       THEN handle_number_except(s, "Exception") /\ UNCHANGED <<rows, hist>>
       ELSE /\ rows' = update_cell(rows, req[s].today_row, req[s].new_count)
            /\ Wrote(s)
            /\ Step(s, "add_today")
    /\ UNCHANGED <<now, env, req, nreq>>

\* add_eggs: worksheet.append_row([today, count])
add_eggs_append(s, net) ==
    /\ pc[s] = "add_append"
    /\ IF ~net
       THEN handle_number_except(s, "Exception") /\ UNCHANGED <<rows, hist>>
       ELSE /\ rows' = append_row(rows, req[s].today, req[s].count)
            /\ Wrote(s)
            /\ Step(s, "add_today")
    /\ UNCHANGED <<now, env, req, nreq>>

\* add_eggs: today_total = get_today_total()
add_eggs_today(s, net) ==
    LET total == IF get_worksheet(net).exc # "none" THEN get_worksheet(net)
                 ELSE get_today_total(rows, now)
    IN  /\ pc[s] = "add_today"
        /\ IF total.exc # "none"
           THEN handle_number_except(s, total.exc) /\ UNCHANGED req
           ELSE /\ req' = [req EXCEPT ![s].today_total = total.val]
                    /\ Step(s, "add_week")
        /\ UNCHANGED <<rows, now, env, hist, nreq>>

\* add_eggs: week_total = get_week_total(), the return, and the reply.
add_eggs_week(s, net) ==
    /\ pc[s] = "add_week"
    /\ IF get_worksheet(net).exc # "none"
       THEN /\ handle_number_except(s, get_worksheet(net).exc)
            /\ UNCHANGED req
       ELSE /\ req' = [req EXCEPT ![s].week_total = get_week_total(rows, now)]
            /\ Finish(s, AddedReply(req[s].count, req[s].today_total,
                                    get_week_total(rows, now)), FALSE)
    /\ UNCHANGED <<rows, now, env, hist, nreq>>

\* stats: the update arrives.
stats(s) ==
    /\ Arrive(s, "stats", <<>>, 0)
    /\ Step(s, "stats_today")
    /\ UNCHANGED <<rows, now, env>>

\* stats: today_total = sheets.get_today_total()
stats_today(s, net) ==
    LET total == IF get_worksheet(net).exc # "none" THEN get_worksheet(net)
                 ELSE get_today_total(rows, now)
    IN  /\ pc[s] = "stats_today"
        /\ IF total.exc # "none"
           THEN stats_except(s) /\ UNCHANGED <<req, hist>>
           ELSE /\ req' = [req EXCEPT ![s].today_total = total.val, ![s].today = now]
                /\ Fetched(s, rows)
                /\ Step(s, "stats_week")
        /\ UNCHANGED <<rows, now, env, nreq>>

\* stats: week_total = sheets.get_week_total()
stats_week(s, net) ==
    /\ pc[s] = "stats_week"
    /\ IF get_worksheet(net).exc # "none"
       THEN stats_except(s) /\ UNCHANGED <<req, hist>>
       ELSE /\ req' = [req EXCEPT ![s].week_total = get_week_total(rows, now),
                                  ![s].today = now]
            /\ Fetched(s, rows)
            /\ Step(s, "stats_breakdown")
    /\ UNCHANGED <<rows, now, env, nreq>>

\* stats: breakdown = sheets.get_week_breakdown(), then the report.
stats_breakdown(s, net) ==
    /\ pc[s] = "stats_breakdown"
    /\ IF get_worksheet(net).exc # "none"
       THEN stats_except(s) /\ UNCHANGED <<req, hist>>
       ELSE /\ req' = [req EXCEPT ![s].today = now]
            /\ Fetched(s, rows)
            /\ Finish(s, StatsReply(req[s].today_total, req[s].week_total,
                                    get_week_breakdown(rows, now)), FALSE)
    /\ UNCHANGED <<rows, now, env, nreq>>

\* The clock starts on the last tick of Day0 and stops at the midnight after.
FirstTick == Day0 * TicksPerDay + (TicksPerDay - 1)
LastTick == (Day0 + 1) * TicksPerDay

\* The wall clock moves on.
Tick ==
    /\ now < LastTick
    /\ now' = now + 1
    /\ UNCHANGED <<rows, env, pc, req, reply, logged, hist, nreq>>

\* ------------------------------------------------------- specifications
Envs == [creds : BOOLEAN, sheet_id : BOOLEAN]

SeqsUpTo(S, n) == UNION {[1..k -> S] : k \in 0..n}

\* The rows a sheet holds when the bot starts: at most one row, so one row per
\* date; a Count that is text stands for a cell edited by hand.
InitSheets ==
    { <<>>,
      <<Row(IsoDate(Day0), IntCell(1))>>,
      <<Row(IsoDate(Day0), TextCell)>>,
      <<Row(IsoDate(Day0 - 1), IntCell(1))>>,
      <<Row(IsoDate(Day0 + 1), TextCell)>> }

InitSessions ==
    /\ pc = [s \in Sessions |-> "idle"]
    /\ req = [s \in Sessions |-> NoReq]
    /\ reply = [s \in Sessions |-> NoReply]
    /\ logged = [s \in Sessions |-> FALSE]
    /\ hist = [s \in Sessions |-> NoHist]
    /\ nreq = 0

Init ==
    /\ rows \in InitSheets
    /\ now = FirstTick
    /\ env \in Envs
    /\ InitSessions

Next ==
    \/ Tick
    \/ \E s \in Sessions : start(s)
    \/ \E s \in Sessions : stats(s)
    \/ \E s \in Sessions, text \in Texts : handle_number(s, text)
    \/ \E s \in Sessions, net \in BOOLEAN : add_eggs_fetch(s, net)
    \/ \E s \in Sessions, net \in BOOLEAN : add_eggs_cell(s, net)
    \/ \E s \in Sessions, net \in BOOLEAN : add_eggs_update(s, net)
    \/ \E s \in Sessions, net \in BOOLEAN : add_eggs_append(s, net)
    \/ \E s \in Sessions, net \in BOOLEAN : add_eggs_today(s, net)
    \/ \E s \in Sessions, net \in BOOLEAN : add_eggs_week(s, net)
    \/ \E s \in Sessions, net \in BOOLEAN : stats_today(s, net)
    \/ \E s \in Sessions, net \in BOOLEAN : stats_week(s, net)
    \/ \E s \in Sessions, net \in BOOLEAN : stats_breakdown(s, net)

Spec == Init /\ [][Next]_vars

\* The aggregator alone: /stats on a sheet that nothing writes, at an instant
\* that does not move, the rows and the instant drawn from bounded sets.
AggDates ==
    { IsoDate(Day0 - 7), IsoDate(Day0 - 6), IsoDate(Day0), IsoDate(Day0 + 1),
      ShortDate(Day0 - 1), BlankDate, JunkDate }
AggCounts == {IntCell(1), IntCell(2), TextCell}
AggSheets == SeqsUpTo([Date : AggDates, Count : AggCounts], MaxRows)

InitAgg ==
    /\ rows \in AggSheets
    /\ now \in {Day0 * TicksPerDay, FirstTick}
    /\ env = [creds |-> TRUE, sheet_id |-> TRUE]
    /\ InitSessions

NextAgg ==
    \/ \E s \in AggSessions : stats(s)
    \/ \E s \in AggSessions : stats_today(s, TRUE)
    \/ \E s \in AggSessions : stats_week(s, TRUE)
    \/ \E s \in AggSessions : stats_breakdown(s, TRUE)

SpecAgg == InitAgg /\ [][NextAgg]_vars

\* ------------------------------------------------- what the claims read
DayOf(dt) == dt \div TicksPerDay

\* The rows whose Date cell is the YYYY-MM-DD text of calendar day `day`.
RowsOn(sheet, day) == {i \in 1..Len(sheet) : sheet[i].Date = IsoDate(day)}

\* The rows whose Date cell reads as calendar day `day`, padded or not.
RowsDated(sheet, day) ==
    {i \in 1..Len(sheet) :
        sheet[i].Date.kind \in {"iso", "short"} /\ sheet[i].Date.day = day}

Days(sheet) ==
    {sheet[i].Date.day : i \in {j \in 1..Len(sheet) : sheet[j].Date.kind \in {"iso", "short"}}}

OneRowPerDate(sheet) == \A day \in Days(sheet) : Cardinality(RowsDated(sheet, day)) = 1

ZeroPadded(sheet) == \A i \in 1..Len(sheet) : sheet[i].Date.kind # "short"

NumberOf(cell) == IF cell.kind = "int" THEN cell.v ELSE 0

\* The count recorded for calendar day `day`: 0 when no row has that date.
CountDated(sheet, day) ==
    IF RowsDated(sheet, day) = {} THEN 0
    ELSE NumberOf(sheet[CHOOSE i \in RowsDated(sheet, day) : TRUE].Count)

\* The sum of the counts of the rows dated first..last, both ends included.
RECURSIVE SumDated(_, _, _, _)
SumDated(sheet, first, last, n) ==
    IF n = 0 THEN 0
    ELSE SumDated(sheet, first, last, n - 1)
         + (IF /\ sheet[n].Date.kind \in {"iso", "short"}
               /\ first <= sheet[n].Date.day
               /\ sheet[n].Date.day <= last
            THEN NumberOf(sheet[n].Count) ELSE 0)

\* What each message of Texts says, read by eye.
NotIntegers == { <<"a">> }
Negatives == { <<"-", "1">> }
Over100 == { <<"1", "0", "1">> }
InRange == { <<" ", "0">>, <<"1", "0", "0">> }

Answered(s, kind, type) ==
    pc[s] = "done" /\ req[s].kind = kind /\ reply[s].type = type

\* A number request answered "Added", begun on a day whose row, if any, is
\* single and numeric, with no write of another session since it arrived and
\* the calendar day unchanged since.
AddedAlone(s) ==
    /\ Answered(s, "number", "added")
    /\ hist[s].alone
    /\ DayOf(hist[s].now0) = DayOf(now)
    /\ Cardinality(RowsOn(hist[s].rows0, DayOf(now))) <= 1
    /\ \A i \in RowsOn(hist[s].rows0, DayOf(now)) : hist[s].rows0[i].Count.kind = "int"

\* ------------------------------------------------------------------ claims
\* C1: a number message c with 0 <= c <= 100, handled to its "Added" reply with
\* no write of another request in between and within one calendar day, leaves
\* today's row holding t + c and reports today's total as t + c, where t is
\* today's count when the message arrived (0 when today had no row).
C1_AddIsAdditive ==
    \A s \in Sessions :
        AddedAlone(s) =>
            LET today == DayOf(now)
                t == CountDated(hist[s].rows0, today)
            IN  /\ req[s].count \in 0..100
                /\ Cardinality(RowsOn(rows, today)) = 1
                /\ \A i \in RowsOn(rows, today) : rows[i].Count = IntCell(t + req[s].count)
                /\ reply[s].today = t + req[s].count
                /\ reply[s].count = req[s].count

C1_Witness ==
    \E s \in Sessions :
        /\ AddedAlone(s)
        /\ CountDated(hist[s].rows0, DayOf(now)) > 0
        /\ req[s].count = 100
        /\ reply[s].today > 100

\* C2: weekTotal is the sum of count over exactly the records dated today-6 ..
\* today, both ends included, at whatever time of day the query is made.
C2_WeekTotalSevenDays ==
    \A s \in Sessions :
        Answered(s, "stats", "stats") =>
            reply[s].week = SumDated(rows, DayOf(now) - 6, DayOf(now), Len(rows))

\* C3: with at most one row per date, weekBreakdown has exactly 7 entries,
\* newest first, entry i carrying the count of the record dated today-i, or 0
\* when no record has that date.
C3_BreakdownSevenDays ==
    \A s \in Sessions :
        (Answered(s, "stats", "stats") /\ OneRowPerDate(rows) /\ ZeroPadded(rows)) =>
            /\ Len(reply[s].breakdown) = 7
            /\ \A i \in 0..6 :
                /\ reply[s].breakdown[i + 1].label = DayOf(now) - i
                /\ reply[s].breakdown[i + 1].count = CountDated(rows, DayOf(now) - i)

\* C4 as stated: for any rows, rows sharing a date included, weekTotal equals
\* the sum of the 7 counts of weekBreakdown (here on rows whose dates are all
\* written zero-padded, which the claim covers).
C4_TotalIsBreakdownSum ==
    \A s \in Sessions :
        (Answered(s, "stats", "stats") /\ ZeroPadded(rows)) =>
            reply[s].week = SumCounts(reply[s].breakdown, 7)

\* C4 as amended: for rows with at most one row per date and every readable
\* date written zero-padded, weekTotal computed on the same rows at the same
\* instant equals the sum of the 7 counts of weekBreakdown.
C4_TotalIsBreakdownSumOnePerDate ==
    \A s \in Sessions :
        (Answered(s, "stats", "stats") /\ OneRowPerDate(rows) /\ ZeroPadded(rows)) =>
            reply[s].week = SumCounts(reply[s].breakdown, 7)

C4_Witness ==
    \E s \in Sessions :
        /\ Answered(s, "stats", "stats")
        /\ OneRowPerDate(rows) /\ ZeroPadded(rows)
        /\ Len(rows) = 2
        /\ RowsDated(rows, Day0 - 7) # {}
        /\ reply[s].week = 2

\* C5: a message that is not an integer, is below 0 or is above 100 gets the
\* usage hint, the positive-number prompt or the over-100 prompt, and the
\* request writes nothing; only an integer in 0..100 reaches the store write.
C5_RejectedWritesNothing ==
    \A s \in Sessions :
        /\ (req[s].kind = "number" /\ req[s].text \notin InRange) =>
              /\ pc[s] = "done"
              /\ ~hist[s].wrote
              /\ hist[s].alone => rows = hist[s].rows0
              /\ req[s].text \in NotIntegers => reply[s] = HintReply
              /\ req[s].text \in Negatives => reply[s] = PositiveReply
              /\ req[s].text \in Over100 => reply[s] = TooManyReply
        /\ (pc[s] \in {"add_fetch", "add_cell", "add_update", "add_append"}
                \/ hist[s].wrote) =>
              /\ req[s].text \in InRange
              /\ req[s].count \in 0..100

C5_Witness ==
    \E s \in Sessions :
        /\ Answered(s, "number", "too_many")
        /\ req[s].text \in Over100
        /\ rows # <<>>
        /\ rows = hist[s].rows0
        /\ \E t \in Sessions : hist[t].wrote /\ req[t].count = 100

\* The last fetch of a stats request: the rows its breakdown was computed from.
LastFetch(s) == hist[s].snaps[Len(hist[s].snaps)]

\* C6: in every /stats reply the today total, the week total and the breakdown
\* come from one and the same fetched state of the sheet, whatever other
\* sessions write meanwhile; so, within one calendar day and with one row per
\* date, today's total is the count of the breakdown's newest entry.
C6_StatsOneSnapshot ==
    \A s \in Sessions :
        (/\ Answered(s, "stats", "stats")
         /\ DayOf(hist[s].now0) = DayOf(req[s].today)
         /\ OneRowPerDate(LastFetch(s))) =>
            reply[s].today = reply[s].breakdown[1].count

\* C7: when the text is an integer in 0..100 and a step of the store adapter
\* fails, the reply is the apology and the failure is logged; the usage hint
\* answers only a text that is not an integer.
C7_StoreFailureApologises ==
    \A s \in Sessions :
        /\ (pc[s] = "done" /\ req[s].kind = "number" /\ req[s].text \in InRange
                /\ reply[s].type # "added") =>
              (reply[s].type = "add_apology" /\ logged[s])
        /\ Answered(s, "number", "hint") => req[s].text \in NotIntegers

\* C8: starting with at most one row per date, every reachable sheet has at
\* most one row per date, whatever the interleaving of add requests.
C8_OneRowPerDate == OneRowPerDate(rows)

\* C9 as stated: within one calendar day no step of any interleaving of add
\* requests lowers the count of a row dated today.
C9_CountNeverLowered ==
    [][\A i \in RowsOn(rows, DayOf(now)) :
          (DayOf(now') = DayOf(now) /\ rows[i].Count.kind = "int")
              => (rows'[i].Count.kind = "int" /\ rows'[i].Count.v >= rows[i].Count.v)]_vars

\* The update of session s lands on a cell that still reads as it did when s
\* read it: no other write changed it in between.
CellAsRead(s) ==
    int_of_cell(rows[record_of_row(req[s].today_row)].Count) =
        Ok(req[s].current_count)

\* C9 as amended: within one calendar day, a write of this system lowers the
\* count of a row dated today only when it is an update whose cell another
\* request changed between that add's read of it and its write (the lost
\* update); every other write leaves the count as high or higher.
C9_CountLoweredOnlyByLostUpdate ==
    [][(\A s \in Sessions :
            (pc[s] = "add_update" /\ pc'[s] = "add_today") => CellAsRead(s))
        => \A i \in RowsOn(rows, DayOf(now)) :
              (DayOf(now') = DayOf(now) /\ rows[i].Count.kind = "int")
                  => (rows'[i].Count.kind = "int"
                        /\ rows'[i].Count.v >= rows[i].Count.v)]_vars

C9_Witness ==
    \E s \in Sessions :
        /\ pc[s] = "add_today"
        /\ req[s].today_row # 0
        /\ hist[s].alone
        /\ DayOf(req[s].today) = DayOf(now)
        /\ rows[record_of_row(req[s].today_row)].Count = IntCell(req[s].new_count)
        /\ req[s].current_count > 0
        /\ req[s].count > 0

\* C10: whenever an add request ends with the apology, that request has not
\* changed the sheet.
C10_ApologyMeansNoWrite ==
    \A s \in Sessions :
        Answered(s, "number", "add_apology") => ~hist[s].wrote

=============================================================================
